---- MODULE Spec2Model ----
(***************************************************************************)
(* Model of server-common/src/validation/index.ts: the ValidationFailure   *)
(* records and the two formatters generateValidationSummary and            *)
(* generateValidationMessage.                                              *)
(*                                                                         *)
(* JavaScript values are tagged records ([t |-> "number", v |-> 2], ...),  *)
(* so that `=== undefined`, toString() and template interpolation are      *)
(* computed the way the language computes them.  A call ends in a          *)
(* completion record: a returned string or a thrown TypeError.             *)
(***************************************************************************)
EXTENDS Integers, Sequences, FiniteSets, TLC

VARIABLES failures, op, idx, result, message

vars == <<failures, op, idx, result, message>>

(***************************************************************************)
(* Bounds of the input domain.                                             *)
(***************************************************************************)
MaxLen == 3
MaxNum == 2
MaxItem == 3
MaxArrayLen == 4

(***************************************************************************)
(* JavaScript values.                                                      *)
(***************************************************************************)
Undefined == [t |-> "undefined"]
Num(n) == [t |-> "number", v |-> n]
Str(s) == [t |-> "string", v |-> s]
Arr(a) == [t |-> "array", v |-> a]

Return(s) == [completion |-> "return", value |-> s]
Throw(e) == [completion |-> "throw", value |-> e]
NoResult == [completion |-> "none", value |-> ""]

\* Property read obj.name: a missing property reads as undefined.
Get(obj, name) == IF name \in DOMAIN obj THEN obj[name] ELSE Undefined

\* Element read arr[i], 0-based; outside the array it reads as undefined.
At(a, i) == IF (i + 1) \in DOMAIN a THEN a[i + 1] ELSE Undefined

Digit(d) ==
  CASE d = 0 -> "0" [] d = 1 -> "1" [] d = 2 -> "2" [] d = 3 -> "3"
    [] d = 4 -> "4" [] d = 5 -> "5" [] d = 6 -> "6" [] d = 7 -> "7"
    [] d = 8 -> "8" [] d = 9 -> "9"

RECURSIVE NatToString(_)
NatToString(n) ==
  IF n < 10 THEN Digit(n) ELSE NatToString(n \div 10) \o Digit(n % 10)

\* Number to decimal text, as `${n}` and n.toString() render an integer.
NumberToString(n) == IF n < 0 THEN "-" \o NatToString(0 - n) ELSE NatToString(n)

\* The text one array element contributes to join: empty for undefined.
ElemText(e) ==
  CASE e.t = "undefined" -> ""
    [] e.t = "number" -> NumberToString(e.v)
    [] e.t = "string" -> e.v

\* Variant of Join that drops an element equal to its successor.
RECURSIVE JoinMut(_, _)
JoinMut(a, sep) ==
  IF Len(a) = 0 THEN ""
  ELSE IF Len(a) = 1 THEN ElemText(a[1])
  ELSE IF a[1] = a[2] THEN JoinMut(Tail(a), sep)
  ELSE ElemText(a[1]) \o sep \o JoinMut(Tail(a), sep)

\* Array.prototype.join, which array toString() and `${array}` use with ",".
RECURSIVE Join(_, _)
Join(a, sep) ==
  IF Len(a) = 0 THEN ""
  ELSE IF Len(a) = 1 THEN ElemText(a[1])
  ELSE ElemText(a[1]) \o sep \o Join(Tail(a), sep)

\* String interpolation `${val}`: never throws on these value types.
Interpolate(val) ==
  CASE val.t = "undefined" -> "undefined"
    [] val.t = "number" -> NumberToString(val.v)
    [] val.t = "string" -> val.v
    [] val.t = "array" -> Join(val.v, ",")

\* Method call val.toString(): a TypeError when val is undefined.
toString(val) ==
  IF val.t = "undefined" THEN Throw("TypeError") ELSE Return(Interpolate(val))

(***************************************************************************)
(* The failure records (interfaces and class of index.ts, lines 20-70).    *)
(***************************************************************************)
RequiredValidationFailure(m) ==
  [memberName |-> m, constraintType |-> "required"]

EnumValidationFailure(m, cv, fv) ==
  [memberName |-> m, constraintType |-> "enum",
   constraintValues |-> cv, failureValue |-> fv]

LengthValidationFailure(m, min, max, fv) ==
  [memberName |-> m, constraintType |-> "length",
   constraintValues |-> Arr(<<min, max>>), failureValue |-> fv]

PatternValidationFailure(m, cv, fv) ==
  [memberName |-> m, constraintType |-> "pattern",
   constraintValues |-> cv, failureValue |-> fv]

RangeValidationFailure(m, min, max, fv) ==
  [memberName |-> m, constraintType |-> "range",
   constraintValues |-> Arr(<<min, max>>), failureValue |-> fv]

UniqueItemsValidationFailure(m, fv) ==
  [memberName |-> m, constraintType |-> "uniqueItems", failureValue |-> fv]

(***************************************************************************)
(* generateValidationMessage (lines 97-150).                               *)
(***************************************************************************)
\* Variant of IsUndefined: a falsy test, which also takes 0 for absent.
IsUndefinedMut(v) == v = Undefined \/ v = Num(0)

\* The test `x === undefined`.
IsUndefined(v) == v = Undefined

\* Variant of failureValueText without the test for "required".
failureValueTextMut(failure) == toString(Get(failure, "failureValue"))

\* Line 98.
failureValueText(failure) ==
  IF failure.constraintType = "required"
  THEN Return("null")
  ELSE toString(Get(failure, "failureValue"))

\* Variant of lengthSuffix with the two one-sided tests exchanged.
lengthSuffixMut(min, max) ==
  IF IsUndefined(max)
  THEN "must have length less than or equal to " \o Interpolate(min)
  ELSE IF IsUndefined(min)
  THEN "must have length greater than or equal to " \o Interpolate(max)
  ELSE "must have length between " \o Interpolate(min) \o " and "
         \o Interpolate(max) \o ", inclusive"

\* Lines 117-123.
lengthSuffix(min, max) ==
  IF IsUndefined(min)
  THEN "must have length less than or equal to " \o Interpolate(max)
  ELSE IF IsUndefined(max)
  THEN "must have length greater than or equal to " \o Interpolate(min)
  ELSE "must have length between " \o Interpolate(min) \o " and "
         \o Interpolate(max) \o ", inclusive"

\* Variant of rangeSuffix that reuses the length wording.
rangeSuffixMut(min, max) == lengthSuffix(min, max)

\* Lines 135-141.
rangeSuffix(min, max) ==
  IF IsUndefined(min)
  THEN "must be less than or equal to " \o Interpolate(max)
  ELSE IF IsUndefined(max)
  THEN "must be greater than or equal to " \o Interpolate(min)
  ELSE "must be between " \o Interpolate(min) \o " and "
         \o Interpolate(max) \o ", inclusive"

\* The switch of lines 100-148: the prefix and suffix it leaves assigned.
\* A constraintType no case matches leaves both variables undefined.
PrefixSuffix(failure) ==
  CASE failure.constraintType = "required" ->
         [prefix |-> Str("Value"), suffix |-> Str("must not be null")]
    [] failure.constraintType = "enum" ->
         [prefix |-> Str("Value"),
          suffix |-> Str("must satisfy enum value set: "
                           \o Interpolate(Get(failure, "constraintValues")))]
    [] failure.constraintType = "length" ->
         [prefix |-> Str("Value with length"),
          suffix |-> Str(lengthSuffix(At(failure.constraintValues.v, 0),
                                      At(failure.constraintValues.v, 1)))]
    [] failure.constraintType = "pattern" ->
         [prefix |-> Str("Value"),
          suffix |-> Str("must satisfy regular expression pattern: "
                           \o Interpolate(Get(failure, "constraintValues")))]
    [] failure.constraintType = "range" ->
         [prefix |-> Str("Value"),
          suffix |-> Str(rangeSuffix(At(failure.constraintValues.v, 0),
                                     At(failure.constraintValues.v, 1)))]
    [] failure.constraintType = "uniqueItems" ->
         [prefix |-> Str("Value with repeated values"),
          suffix |-> Str("must have unique values")]
    [] OTHER -> [prefix |-> Undefined, suffix |-> Undefined]

\* Variant of generateValidationMessage whose template lacks "Member ".
generateValidationMessageMut(failure) ==
  LET fv == failureValueText(failure)
      ps == PrefixSuffix(failure)
  IN IF fv.completion = "throw" THEN fv
     ELSE Return(Interpolate(ps.prefix) \o " " \o fv.value
                   \o " failed to satisfy constraint: " \o Interpolate(ps.suffix))

generateValidationMessage(failure) ==
  LET fv == failureValueText(failure)
      ps == PrefixSuffix(failure)
  IN IF fv.completion = "throw" THEN fv
     ELSE Return(Interpolate(ps.prefix) \o " " \o fv.value
                   \o " failed to satisfy constraint: Member "
                   \o Interpolate(ps.suffix))

(***************************************************************************)
(* generateValidationSummary (lines 81-95).                                *)
(***************************************************************************)
\* Variant of failingMembers that keeps one entry per failure.
failingMembersMut(fs) == 1 .. Len(fs)

\* Line 82: the set of the memberName values.
failingMembers(fs) == {fs[i].memberName : i \in 1 .. Len(fs)}

\* Variant of errorPlural that pluralises from one failure on.
errorPluralMut(fs) == IF Len(fs) > 0 THEN "s" ELSE ""

\* Line 84: the "s" of "errors".
errorPlural(fs) == IF Len(fs) > 1 THEN "s" ELSE ""

\* Lines 84-90: the local `message` up to and including "detected. ".
summaryHead(fs) ==
  LET size == Cardinality(failingMembers(fs))
      m1 == NumberToString(Len(fs)) \o " validation error" \o errorPlural(fs) \o " "
      m2 == IF Len(fs) > 1
            THEN m1 \o "across " \o NumberToString(size) \o " "
                    \o "member" \o (IF size > 1 THEN "s" ELSE "") \o " "
            ELSE m1
  IN m2 \o "detected. "

\* Variant of firstFailure that reads the last element.
firstFailureMut(fs) == At(fs, Len(fs) - 1)

\* The element failures[0] of line 92.
firstFailure(fs) == At(fs, 0)

\* The call's completion and the value the local `message` holds when the
\* call ends.  Reading memberName of an undefined failures[0] throws.
\* Variant of generateValidationSummary that returns the head for an empty array.
generateValidationSummaryMut(fs) ==
  LET head == summaryHead(fs)
      first == firstFailure(fs)
  IN IF first = Undefined
     THEN [completion |-> "return", value |-> head, message |-> head]
     ELSE LET detail == generateValidationMessage(first)
              full == head \o "Member '" \o first.memberName \o "' failed: "
                        \o detail.value \o "."
          IN IF detail.completion = "throw"
             THEN [completion |-> "throw", value |-> detail.value, message |-> head]
             ELSE [completion |-> "return", value |-> full, message |-> full]

generateValidationSummary(fs) ==
  LET head == summaryHead(fs)
      first == firstFailure(fs)
  IN IF first = Undefined
     THEN [completion |-> "throw", value |-> "TypeError", message |-> head]
     ELSE LET detail == generateValidationMessage(first)
              full == head \o "Member '" \o first.memberName \o "' failed: "
                        \o detail.value \o "."
          IN IF detail.completion = "throw"
             THEN [completion |-> "throw", value |-> detail.value, message |-> head]
             ELSE [completion |-> "return", value |-> full, message |-> full]

(***************************************************************************)
(* Input domain: the failure records a caller can hand to the formatters.  *)
(***************************************************************************)
MemberNames == {"a", "b", "bar"}

Nums == {-1, 10} \cup (0 .. MaxNum)

Bounds == {Undefined} \cup {Num(n) : n \in Nums}

RECURSIVE SeqsUpTo(_, _)
SeqsUpTo(S, n) ==
  IF n = 0 THEN {<<>>}
  ELSE LET shorter == SeqsUpTo(S, n - 1)
       IN shorter \cup {Append(q, x) : q \in {r \in shorter : Len(r) = n - 1}, x \in S}

EnumSets == {Arr(<<Str("red"), Str("green"), Str("blue")>>), Arr(<<Str("x")>>)}

ItemArrays == {Arr(a) : a \in SeqsUpTo({Num(n) : n \in 1 .. MaxItem}, MaxArrayLen)}

RequiredFailures == {RequiredValidationFailure(m) : m \in MemberNames}

EnumFailures ==
  {EnumValidationFailure(m, cv, Str(fv)) :
     m \in MemberNames, cv \in EnumSets, fv \in {"purple", ""}}

LengthFailures ==
  {LengthValidationFailure(m, b[1], b[2], Num(fv)) :
     m \in MemberNames, b \in Bounds \X Bounds, fv \in Nums \ {-1}}

PatternFailures ==
  {PatternValidationFailure(m, Str("^[a-z]+$"), Str(fv)) :
     m \in MemberNames, fv \in {"AB12", ""}}

RangeFailures ==
  {RangeValidationFailure(m, b[1], b[2], Num(fv)) :
     m \in MemberNames, b \in Bounds \X Bounds, fv \in Nums}

UniqueItemsFailures ==
  {UniqueItemsValidationFailure(m, a) : m \in MemberNames, a \in ItemArrays}

\* The union type ValidationFailure.
ValidationFailure ==
  RequiredFailures \cup EnumFailures \cup LengthFailures
    \cup PatternFailures \cup RangeFailures \cup UniqueItemsFailures

\* The members of the longer sequences' records.
SampleNames == {"a", "b"}

\* For the longer sequences: one record of each kind on each sample member,
\* and a required failure on every other member.
SampleFailures ==
  RequiredFailures \cup
  UNION {{EnumValidationFailure(m, Arr(<<Str("red"), Str("green"), Str("blue")>>),
                                Str("purple")),
          LengthValidationFailure(m, Num(2), Num(10), Num(1)),
          PatternValidationFailure(m, Str("^[a-z]+$"), Str("AB12")),
          RangeValidationFailure(m, Undefined, Num(0), Num(2)),
          UniqueItemsValidationFailure(m, Arr(<<Num(1), Num(2), Num(2), Num(3)>>))} :
         m \in SampleNames}

\* The arrays of failures a caller passes: any single failure, and every
\* sequence of at most MaxLen sample failures (the empty one included).
FailureArrays ==
  {<<f>> : f \in ValidationFailure} \cup SeqsUpTo(SampleFailures, MaxLen)

\* The invariants of the data model: a member name, at least one bound on
\* length and range, a non-empty enum value set, a failure value on every
\* kind but required.
WellFormed(f) ==
  /\ f.memberName # ""
  /\ f.constraintType \in {"length", "range"} =>
        ~(At(f.constraintValues.v, 0) = Undefined /\ At(f.constraintValues.v, 1) = Undefined)
  /\ f.constraintType = "enum" => Len(f.constraintValues.v) > 0
  /\ f.constraintType # "required" => Get(f, "failureValue") # Undefined

AllWellFormed(fs) == \A i \in 1 .. Len(fs) : WellFormed(fs[i])

(***************************************************************************)
(* The state machine: a caller holds an array of failures and calls the    *)
(* two formatters on it.                                                   *)
(***************************************************************************)
Init ==
  /\ failures \in FailureArrays
  /\ op = "none"
  /\ idx = 0
  /\ result = NoResult
  /\ message = ""

\* A call generateValidationSummary(failures).
Summary ==
  LET r == generateValidationSummary(failures)
  IN /\ op' = "summary"
     /\ idx' = 0
     /\ result' = [completion |-> r.completion, value |-> r.value]
     /\ message' = r.message
     /\ UNCHANGED failures

\* A call generateValidationMessage(failures[i]).
Message ==
  \E i \in 0 .. (Len(failures) - 1) :
    /\ op' = "message"
    /\ idx' = i
    /\ result' = generateValidationMessage(At(failures, i))
    /\ message' = ""
    /\ UNCHANGED failures

Next == Summary \/ Message

Spec == Init /\ [][Next]_vars

(***************************************************************************)
(* Helpers of the properties: text tests, and renderings that do not go    *)
(* through the operators above.                                            *)
(***************************************************************************)
StartsWith(s, p) == Len(s) >= Len(p) /\ SubSeq(s, 1, Len(p)) = p

EndsWith(s, p) == Len(s) >= Len(p) /\ SubSeq(s, Len(s) - Len(p) + 1, Len(s)) = p

\* The positions at which p occurs in s.
Occurrences(s, p) ==
  {i \in 1 .. (Len(s) - Len(p) + 1) : SubSeq(s, i, i + Len(p) - 1) = p}

Contains(s, p) == Occurrences(s, p) # {}

\* The text after the first "detected. " of a summary.
FinalClause(s) ==
  LET occ == Occurrences(s, "detected. ")
  IN IF occ = {} THEN ""
     ELSE LET i == CHOOSE x \in occ : \A y \in occ : x <= y
          IN SubSeq(s, i + Len("detected. "), Len(s))

\* The number of distinct member names, counted by first occurrences.
DistinctMembers(fs) ==
  Cardinality({i \in 1 .. Len(fs) :
                 \A j \in 1 .. (i - 1) : fs[j].memberName # fs[i].memberName})

\* The comma-separated text of an array of numbers, left to right.
ItemsText(a) ==
  LET RECURSIVE upto(_)
      upto(k) == IF k = 0 THEN ""
                 ELSE IF k = 1 THEN ToString(a[1].v)
                 ELSE upto(k - 1) \o "," \o ToString(a[k].v)
  IN upto(Len(a))

\* The textual form of a failure's value: "null" for required.
ValueText(f) ==
  CASE f.constraintType = "required" -> "null"
    [] f.constraintType \in {"length", "range"} -> ToString(f.failureValue.v)
    [] f.constraintType \in {"enum", "pattern"} -> f.failureValue.v
    [] f.constraintType = "uniqueItems" -> ItemsText(f.failureValue.v)

\* The prefix the specification's table gives each kind.
TablePrefix(f) ==
  CASE f.constraintType \in {"required", "enum", "pattern", "range"} -> "Value"
    [] f.constraintType = "length" -> "Value with length"
    [] f.constraintType = "uniqueItems" -> "Value with repeated values"

\* The count clause of a summary of count failures over d members.
LeadingClause(count, d) ==
  IF count > 1
  THEN ToString(count) \o " validation errors across " \o ToString(d)
         \o " member" \o (IF d > 1 THEN "s" ELSE "") \o " detected. "
  ELSE ToString(count) \o " validation error detected. "

\* The failure the last generateValidationMessage call was given.
Called == At(failures, idx)

MessageDone(kind) == op = "message" /\ Called.constraintType = kind

Min(f) == At(f.constraintValues.v, 0)
Max(f) == At(f.constraintValues.v, 1)

(***************************************************************************)
(* C1: a summary of more than one failure starts with                      *)
(* "<count> validation errors across <d> member<s> detected. ", count the  *)
(* length of the sequence, d the number of distinct member names, and the  *)
(* "s" of "members" present exactly when d > 1.                            *)
(***************************************************************************)
C1_PluralLeadingClause ==
  (op = "summary" /\ Len(failures) > 1) =>
    /\ result.completion = "return"
    /\ LET d == DistinctMembers(failures)
       IN /\ StartsWith(result.value,
                        ToString(Len(failures)) \o " validation errors across "
                          \o ToString(d) \o " member")
          /\ StartsWith(result.value,
                        ToString(Len(failures)) \o " validation errors across "
                          \o ToString(d) \o " members detected. ") <=> d > 1
          /\ StartsWith(result.value,
                        ToString(Len(failures)) \o " validation errors across "
                          \o ToString(d) \o " member detected. ") <=> d = 1

C1_Witness ==
  /\ op = "summary"
  /\ Len(failures) = 2
  /\ failures[1].memberName = failures[2].memberName
  /\ result.completion = "return"
  /\ StartsWith(result.value, "2 validation errors across 1 member detected. ")

(***************************************************************************)
(* C2: a summary of exactly one failure with member name m is exactly      *)
(* "1 validation error detected. Member '<m>' failed: <message>.", with    *)
(* the singular "error" and no "across" clause.                            *)
(***************************************************************************)
C2_SingleFailureSummary ==
  (op = "summary" /\ Len(failures) = 1) =>
    /\ result = Return("1 validation error detected. Member '"
                         \o failures[1].memberName \o "' failed: "
                         \o generateValidationMessage(failures[1]).value \o ".")
    /\ ~Contains(result.value, "across")
    /\ ~Contains(result.value, "errors")

C2_Witness ==
  /\ op = "summary"
  /\ Len(failures) = 1
  /\ failures[1].constraintType = "range"
  /\ failures[1].memberName = "bar"
  /\ StartsWith(result.value, "1 validation error detected. Member 'bar' failed: Value ")

(***************************************************************************)
(* C3: for a non-empty F and any further failures G, the final clause of   *)
(* the summary of F ++ G equals that of the summary of F and names F[0]    *)
(* and its message, while the leading clause carries the length and the    *)
(* distinct member count of all of F ++ G.                                 *)
(***************************************************************************)
C3_FinalClauseNamesFirst ==
  (op = "summary" /\ Len(failures) >= 1) =>
    /\ result.completion = "return"
    /\ StartsWith(result.value,
                  LeadingClause(Len(failures), DistinctMembers(failures)))
    /\ \A k \in 1 .. Len(failures) :
         LET F == SubSeq(failures, 1, k)
         IN /\ FinalClause(result.value)
                 = FinalClause(generateValidationSummary(F).value)
            /\ FinalClause(result.value)
                 = "Member '" \o F[1].memberName \o "' failed: "
                     \o generateValidationMessage(F[1]).value \o "."

C3_Witness ==
  /\ op = "summary"
  /\ Len(failures) = 3
  /\ failures[1] # failures[3]
  /\ failures[1].memberName = "a"
  /\ failures[2].memberName = "a"
  /\ failures[3].memberName = "b"
  /\ failures[1].constraintType = "required"
  /\ result.value = "3 validation errors across 2 members detected. "
       \o "Member 'a' failed: Value null failed to satisfy constraint: Member must not be null."

(***************************************************************************)
(* C4: the message of a well-formed failure is exactly                     *)
(* "<prefix> <failureValue> failed to satisfy constraint: Member <suffix>",*)
(* failureValue "null" for required and the value's text otherwise, the    *)
(* prefix as tabulated per kind; it does not depend on memberName and no   *)
(* kind leaves the prefix or the suffix unassigned.                        *)
(***************************************************************************)
C4_MessageShape ==
  (op = "message" /\ WellFormed(Called)) =>
    LET ps == PrefixSuffix(Called)
    IN /\ ps.prefix # Undefined
       /\ ps.suffix # Undefined
       /\ result = Return(TablePrefix(Called) \o " " \o ValueText(Called)
                            \o " failed to satisfy constraint: Member " \o ps.suffix.v)
       /\ \A m \in MemberNames :
            generateValidationMessage([Called EXCEPT !.memberName = m]) = result

C4_Witness ==
  /\ op = "message"
  /\ Called.constraintType = "required"
  /\ Called.memberName = "bar"
  /\ result = Return("Value null failed to satisfy constraint: Member must not be null")

(***************************************************************************)
(* C5: the suffix of a length failure follows the bounds present: both     *)
(* give "must have length between <min> and <max>, inclusive", only max    *)
(* "must have length less than or equal to <max>", only min "must have     *)
(* length greater than or equal to <min>"; exactly one wording appears.    *)
(***************************************************************************)
C5_LengthSuffix ==
  (MessageDone("length") /\ WellFormed(Called)) =>
    LET min == Min(Called)
        max == Max(Called)
        head == "Value with length " \o ToString(Called.failureValue.v)
                  \o " failed to satisfy constraint: Member must have length "
        wordings == {w \in {"between ", "less than or equal to ",
                            "greater than or equal to "} :
                       Contains(result.value, w)}
    IN /\ result.completion = "return"
       /\ (min # Undefined /\ max # Undefined) =>
            result.value = head \o "between " \o ToString(min.v) \o " and "
                             \o ToString(max.v) \o ", inclusive"
       /\ (min = Undefined /\ max # Undefined) =>
            result.value = head \o "less than or equal to " \o ToString(max.v)
       /\ (min # Undefined /\ max = Undefined) =>
            result.value = head \o "greater than or equal to " \o ToString(min.v)
       /\ Cardinality(wordings) = 1

C5_Witness ==
  /\ MessageDone("length")
  /\ Min(Called) = Undefined
  /\ Max(Called) = Num(10)
  /\ EndsWith(result.value, "Member must have length less than or equal to 10")

(***************************************************************************)
(* C6: a range failure has the prefix "Value" and the suffix "must be      *)
(* between <min> and <max>, inclusive", "must be less than or equal to     *)
(* <max>" or "must be greater than or equal to <min>" by the bounds        *)
(* present, and never the message of the length failure with the same      *)
(* bounds and failure value.                                               *)
(***************************************************************************)
C6_RangeSuffix ==
  (MessageDone("range") /\ WellFormed(Called)) =>
    LET min == Min(Called)
        max == Max(Called)
        head == "Value " \o ToString(Called.failureValue.v)
                  \o " failed to satisfy constraint: Member must be "
    IN /\ result.completion = "return"
       /\ (min # Undefined /\ max # Undefined) =>
            result.value = head \o "between " \o ToString(min.v) \o " and "
                             \o ToString(max.v) \o ", inclusive"
       /\ (min = Undefined /\ max # Undefined) =>
            result.value = head \o "less than or equal to " \o ToString(max.v)
       /\ (min # Undefined /\ max = Undefined) =>
            result.value = head \o "greater than or equal to " \o ToString(min.v)
       /\ result # generateValidationMessage(
                     LengthValidationFailure(Called.memberName, min, max,
                                             Called.failureValue))

C6_Witness ==
  /\ MessageDone("range")
  /\ Min(Called) = Num(2)
  /\ Max(Called) = Num(10)
  /\ result = Return("Value 1 failed to satisfy constraint: Member must be between 2 and 10, inclusive")

(***************************************************************************)
(* C7 as stated: the message of a uniqueItems failure is exactly           *)
(* "Value <items joined by commas> failed to satisfy constraint: Member    *)
(* must have unique values".                                               *)
(***************************************************************************)
C7_Original ==
  MessageDone("uniqueItems") =>
    result = Return("Value " \o ItemsText(Called.failureValue.v)
                      \o " failed to satisfy constraint: Member must have unique values")

(***************************************************************************)
(* C7 amended: the message of a uniqueItems failure is exactly "Value with *)
(* repeated values <items joined by commas, repeats included> failed to    *)
(* satisfy constraint: Member must have unique values"; for [1,2,2,3] it   *)
(* is "Value with repeated values 1,2,2,3 failed to satisfy constraint:    *)
(* Member must have unique values".                                        *)
(***************************************************************************)
C7_UniqueItemsMessage ==
  MessageDone("uniqueItems") =>
    /\ result = Return("Value with repeated values "
                         \o ItemsText(Called.failureValue.v)
                         \o " failed to satisfy constraint: Member must have unique values")
    /\ Called.failureValue = Arr(<<Num(1), Num(2), Num(2), Num(3)>>) =>
         result.value = "Value with repeated values 1,2,2,3 failed to satisfy constraint: Member must have unique values"

C7_Witness ==
  /\ MessageDone("uniqueItems")
  /\ Called.failureValue = Arr(<<Num(1), Num(2), Num(2), Num(3)>>)
  /\ result.value = "Value with repeated values 1,2,2,3 failed to satisfy constraint: Member must have unique values"

(***************************************************************************)
(* C8: generateValidationMessage on a well-formed failure, and             *)
(* generateValidationSummary on a non-empty sequence of well-formed        *)
(* failures, return a string and throw nothing, and no call changes the    *)
(* array of failures or a record in it.                                    *)
(***************************************************************************)
C8_TotalAndPure ==
  /\ [](/\ (op = "message" /\ WellFormed(Called)) => result.completion = "return"
        /\ (op = "summary" /\ Len(failures) >= 1 /\ AllWellFormed(failures)) =>
             result.completion = "return")
  /\ [][failures' = failures]_vars

C8_Witness ==
  /\ op = "summary"
  /\ Len(failures) = 2
  /\ AllWellFormed(failures)
  /\ failures[1].constraintType = "required"
  /\ result.completion = "return"
  /\ Len(result.value) > 0

(***************************************************************************)
(* C9: generateValidationSummary on an empty sequence returns no string:   *)
(* with "0 validation error detected. " built, reading the member name of  *)
(* the missing first element ends the call in an error.                    *)
(***************************************************************************)
C9_EmptySequenceThrows ==
  (op = "summary" /\ Len(failures) = 0) =>
    /\ result = Throw("TypeError")
    /\ message = "0 validation error detected. "

C9_Witness ==
  /\ op = "summary"
  /\ failures = <<>>
  /\ result.completion = "throw"

(***************************************************************************)
(* C10: a length or range bound is absent only when undefined, never when  *)
(* it is 0: (0, max) gives "between 0 and <max>, inclusive", (0,           *)
(* undefined) "greater than or equal to 0", (min, 0) "between <min> and 0, *)
(* inclusive".                                                             *)
(***************************************************************************)
C10_ZeroBoundIsPresent ==
  (op = "message" /\ Called.constraintType \in {"length", "range"}) =>
    LET min == Min(Called)
        max == Max(Called)
    IN /\ (min = Num(0) /\ max # Undefined) =>
            EndsWith(result.value,
                     "between 0 and " \o ToString(max.v) \o ", inclusive")
       /\ (min = Num(0) /\ max = Undefined) =>
            EndsWith(result.value, "greater than or equal to 0")
       /\ (min # Undefined /\ max = Num(0)) =>
            EndsWith(result.value,
                     "between " \o ToString(min.v) \o " and 0, inclusive")

C10_Witness ==
  /\ MessageDone("length")
  /\ Min(Called) = Num(0)
  /\ Max(Called) = Undefined
  /\ EndsWith(result.value, "Member must have length greater than or equal to 0")

====
